---- MODULE Spec2Model ----
(***************************************************************************)
(* Model of analysis/data_processing.py: the reconciliation of the         *)
(* referral totals (calculate_correct_totals), the cumulative-to-daily     *)
(* conversion (get_daily_new_applications), the per-date traffic sums      *)
(* (get_total_daily_traffic), the source rankings (get_top_sources,        *)
(* get_sources_by_quality) and the loaders of the referral files.  Tables  *)
(* are sequences of records, one per DataFrame row, in DataFrame order.    *)
(***************************************************************************)
EXTENDS Integers, Sequences, FiniteSets, TLC

VARIABLES
    referral,           \* data['referral']: the aggregate referral table
    referral_daily,     \* data['referral_daily']: the cumulative daily table
    posthog_daily,      \* data['posthog_daily']: the daily traffic table
    quicksort_stable,   \* whether this build's default sort kind keeps ties in order
    calls               \* the calls made so far: function, argument, result

vars == <<referral, referral_daily, posthog_daily, quicksort_stable, calls>>

(***************************************************************************)
(* float64 arithmetic.  total_count / sum_total and sum_advanced * scale   *)
(* are IEEE-754 binary64 operations, each correctly rounded (round to      *)
(* nearest, ties to even).  A float is a sign, a 53-bit significand (most  *)
(* significant bit first, leading bit 1) and the exponent of its last bit: *)
(* value = (-1)^sign * significand * 2^exp.  Zero has the empty            *)
(* significand.  The operands of the program are far from the overflow and *)
(* subnormal ranges, which are not modelled.                               *)
(***************************************************************************)
Precision == 53

FZero == [sign |-> 0, mant |-> <<>>, exp |-> 0]

Abs(n) == IF n < 0 THEN -n ELSE n

SignOf(n) == IF n < 0 THEN 1 ELSE 0

Pow2(k) == <<1, 2, 4, 8, 16, 32, 64, 128, 256, 512, 1024, 2048, 4096, 8192, 16384, 32768,
             65536, 131072, 262144, 524288, 1048576, 2097152, 4194304, 8388608,
             16777216, 33554432, 67108864, 134217728, 268435456, 536870912,
             1073741824>>[k + 1]

(* Bit strings are worked on in limbs of LimbBits bits, so that every      *)
(* intermediate product stays below 2^31.                                  *)
LimbBits == 8

LimbBase == Pow2(LimbBits)

Zeros(n) == [i \in 1..n |-> 0]

(* number of bits of n >= 0 *)
BitLength(n) == IF n = 0 THEN 0 ELSE (CHOOSE k \in 1..31 : n < Pow2(k) /\ n >= Pow2(k - 1))

IntToBits(n) == LET L == BitLength(n) IN [i \in 1..L |-> (n \div Pow2(L - i)) % 2]

RECURSIVE BitsToInt(_)
BitsToInt(bs) ==
    LET L == Len(bs)
        h == L \div 2
    IN  IF L = 0 THEN 0
        ELSE IF L = 1 THEN bs[1]
        ELSE BitsToInt(SubSeq(bs, 1, h)) * Pow2(L - h) + BitsToInt(SubSeq(bs, h + 1, L))

StripZeros(bs) ==
    IF \A i \in 1..Len(bs) : bs[i] = 0 THEN <<>>
    ELSE LET f == CHOOSE i \in 1..Len(bs) : bs[i] = 1 /\ \A j \in 1..(i - 1) : bs[j] = 0
         IN  SubSeq(bs, f, Len(bs))

LimbsToBits(limbs) ==
    [i \in 1..(LimbBits * Len(limbs)) |->
        (limbs[(i - 1) \div LimbBits + 1] \div Pow2(LimbBits - 1 - ((i - 1) % LimbBits))) % 2]

(* the limbs of a bit string, most significant first; the string is padded *)
(* in front to a whole number of limbs                                     *)
BitsToLimbs(bs) ==
    LET n   == (Len(bs) + LimbBits - 1) \div LimbBits
        pad == Zeros(n * LimbBits - Len(bs)) \o bs
    IN  [j \in 1..n |-> BitsToInt(SubSeq(pad, LimbBits * (j - 1) + 1, LimbBits * j))]

(* bs + 1 on a bit string; an all-ones string grows by one bit *)
IncBits(bs) ==
    IF \A i \in 1..Len(bs) : bs[i] = 1 THEN <<1>> \o Zeros(Len(bs))
    ELSE LET p == CHOOSE i \in 1..Len(bs) : bs[i] = 0 /\ \A j \in (i + 1)..Len(bs) : bs[j] = 1
         IN  [i \in 1..Len(bs) |-> IF i < p THEN bs[i] ELSE IF i = p THEN 1 ELSE 0]

(* Round the exact value bs * 2^e (plus a non-zero remainder below the last *)
(* bit when sticky) to 53 bits, nearest with ties to even.  bs[1] = 1.      *)
RoundBits(sign, bs, e, sticky) ==
    LET L == Len(bs) IN
    IF L <= Precision
    THEN [sign |-> sign, mant |-> bs \o Zeros(Precision - L), exp |-> e - (Precision - L)]
    ELSE LET keep  == SubSeq(bs, 1, Precision)
             guard == bs[Precision + 1]
             rest  == sticky \/ \E i \in (Precision + 2)..L : bs[i] = 1
             up    == guard = 1 /\ (rest \/ keep[Precision] = 1)
             inc   == IncBits(keep)
             e2    == e + (L - Precision)
         IN  IF ~up THEN [sign |-> sign, mant |-> keep, exp |-> e2]
             ELSE IF Len(inc) = Precision THEN [sign |-> sign, mant |-> inc, exp |-> e2]
             ELSE [sign |-> sign, mant |-> SubSeq(inc, 1, Precision), exp |-> e2 + 1]

(* int -> float64 (exact below 2^53) *)
FromInt(n) == IF n = 0 THEN FZero ELSE RoundBits(SignOf(n), IntToBits(Abs(n)), 0, FALSE)

(* Long division of r / d (0 <= r < d < 2^23): the next k limbs of the     *)
(* fraction and the remainder left after them.                             *)
RECURSIVE DivLimbs(_, _, _)
DivLimbs(r, d, k) ==
    IF k = 0 THEN [limbs |-> <<>>, rem |-> r]
    ELSE LET t == DivLimbs((r * LimbBase) % d, d, k - 1)
         IN  [limbs |-> <<(r * LimbBase) \div d>> \o t.limbs, rem |-> t.rem]

(* fraction limbs computed by a division: with n >= 1 and d < 2^23 the     *)
(* quotient has at least Precision + 2 significant bits among them         *)
FracLimbs == 10

(* n / d for integers n and 0 < d < 2^23, as float64 true division does *)
FDiv(n, d) ==
    IF n = 0 THEN FZero
    ELSE LET q == DivLimbs(Abs(n) % d, d, FracLimbs)
             bits == StripZeros(IntToBits(Abs(n) \div d) \o LimbsToBits(q.limbs))
         IN  RoundBits(SignOf(n), bits, -(LimbBits * FracLimbs), q.rem # 0)

(* limbs * a, least significant limb first with a carry; a < 2^22 *)
RECURSIVE MulLimbs(_, _, _, _)
MulLimbs(limbs, i, a, carry) ==
    IF i = 0 THEN <<carry>>
    ELSE LET v == a * limbs[i] + carry
         IN  Append(MulLimbs(limbs, i - 1, a, v \div LimbBase), v % LimbBase)

(* bs * a on a bit string *)
MulBits(bs, a) ==
    LET limbs == BitsToLimbs(bs)
        p     == MulLimbs(limbs, Len(limbs), a, 0)
    IN  StripZeros(IntToBits(p[1]) \o LimbsToBits(SubSeq(p, 2, Len(p))))

(* a * f for an integer a (|a| < 2^22) and a float f, as float64          *)
(* multiplication does                                                     *)
FMul(a, f) ==
    IF a = 0 \/ f = FZero THEN FZero
    ELSE RoundBits((SignOf(a) + f.sign) % 2, MulBits(f.mant, Abs(a)), f.exp, FALSE)

(* int(f): truncation toward zero *)
FTrunc(f) ==
    IF f = FZero THEN 0
    ELSE LET k == Precision + f.exp
             m == IF k <= 0 THEN 0
                  ELSE IF k <= Precision THEN BitsToInt(SubSeq(f.mant, 1, k))
                  ELSE BitsToInt(f.mant \o Zeros(f.exp))
         IN  IF f.sign = 1 THEN -m ELSE m

RECURSIVE BitsLess(_, _, _)
BitsLess(a, b, i) ==
    IF i > Len(a) THEN FALSE
    ELSE IF a[i] # b[i] THEN a[i] < b[i]
    ELSE BitsLess(a, b, i + 1)

(* |f| < |g| *)
MagLess(f, g) ==
    IF g = FZero THEN FALSE
    ELSE IF f = FZero THEN TRUE
    ELSE IF f.exp # g.exp THEN f.exp < g.exp
    ELSE BitsLess(f.mant, g.mant, 1)

(* f <= g *)
FLeq(f, g) ==
    IF f = g THEN TRUE
    ELSE IF f.sign = 1 /\ g.sign = 0 THEN TRUE
    ELSE IF f.sign = 0 /\ g.sign = 1 THEN FALSE
    ELSE IF f.sign = 0 THEN MagLess(f, g)
    ELSE MagLess(g, f)


(***************************************************************************)
(* DataFrames.  A frame is its set of column names and its rows in order.  *)
(* A missing (blank) cell of a text column is NaN, which is equal to       *)
(* nothing, itself included.                                               *)
(***************************************************************************)
NaN == "nan"

ALL == "(all)"

NO_RESPONSE == "(no response)"

(* a frame: its column names and its rows, each row a function from the    *)
(* column names to the cells                                               *)
DataFrame(cols, rs) == [columns |-> cols, rows |-> rs]

(* the columns that hold text; the others hold integers *)
TextColumns == {"Source", "Handle"}

(* elementwise == of a cell of the column col with a scalar *)
Eq(col, a, b) == IF col \in TextColumns THEN a # NaN /\ b # NaN /\ a = b ELSE a = b

(* df[~df[col].isin(values)]: a new frame *)
NotIsIn(df, col, values) ==
    DataFrame(df.columns, SelectSeq(df.rows, LAMBDA row : row[col] \notin values))

(* df[df[col] == value]: a new frame *)
WhereEq(df, col, value) ==
    DataFrame(df.columns, SelectSeq(df.rows, LAMBDA row : Eq(col, row[col], value)))

(* a filter that removes nothing *)
WhereNe_keeps_all(df, col, value) == df

(* df[df[col] != value]: a new frame *)
WhereNe(df, col, value) ==
    DataFrame(df.columns, SelectSeq(df.rows, LAMBDA row : ~Eq(col, row[col], value)))

(* df[col]: the column as a series in row order *)
Column(df, col) == [i \in 1..Len(df.rows) |-> df.rows[i][col]]

(* Series.sum() *)
RECURSIVE Sum(_)
Sum(series) ==
    IF series = <<>> THEN 0
    ELSE series[Len(series)] + Sum(SubSeq(series, 1, Len(series) - 1))

ReferralColumns == {"Source", "Count", "Stage 2 advanced", "Stage 2 rejected", "Stage 2 pending"}

(***************************************************************************)
(* calculate_correct_totals(referral_df).  The result is the returned      *)
(* value (a dict, None, or the exception that leaves the function) and the *)
(* state of the argument frame after the call.                             *)
(***************************************************************************)
(* a filter that removes the (all) row only *)
SourcesOnly_keeps_no_response(referral_df) == NotIsIn(referral_df, "Source", {ALL})

(* a filter that removes the (no response) row only *)
SourcesOnly_keeps_all(referral_df) == NotIsIn(referral_df, "Source", {NO_RESPONSE})

(* line 83: the rows that are neither of the two special rows *)
SourcesOnly(referral_df) == NotIsIn(referral_df, "Source", {ALL, NO_RESPONSE})

(* the (all) rows, the last one first *)
AllRow_last_first(referral_df) ==
    LET found == WhereEq(referral_df, "Source", ALL)
        n     == Len(found.rows)
    IN  DataFrame(found.columns, [k \in 1..n |-> found.rows[n + 1 - k]])

(* line 90: the (all) rows *)
AllRow(referral_df) == WhereEq(referral_df, "Source", ALL)

(* the per-source sum taken as it is, without the duplication factor *)
Estimate_unscaled(sum_stage, total_count, sum_total) == sum_stage

(* the raw sum kept when there is nothing to scale by *)
Estimate_raw_fallback(sum_stage, total_count, sum_total) ==
    IF sum_total > 0
    THEN LET scale == FDiv(total_count, sum_total) IN FTrunc(FMul(sum_stage, scale))
    ELSE sum_stage

(* the scaled sum rounded up to the next whole number *)
Estimate_ceiling(sum_stage, total_count, sum_total) ==
    IF sum_total > 0
    THEN LET scaled == FMul(sum_stage, FDiv(total_count, sum_total))
         IN  IF FromInt(FTrunc(scaled)) = scaled THEN FTrunc(scaled) ELSE FTrunc(scaled) + 1
    ELSE 0

(* lines 110-116: a per-source sum scaled down by the duplication factor *)
Estimate(sum_stage, total_count, sum_total) ==
    IF sum_total > 0
    THEN LET scale == FDiv(total_count, sum_total) IN FTrunc(FMul(sum_stage, scale))
    ELSE 0

(* the rate left as a fraction of 1 *)
AdvancementRate_fraction(est_advanced, total_count) ==
    IF total_count > 0 THEN FDiv(est_advanced, total_count) ELSE FZero

(* line 123 *)
AdvancementRate(est_advanced, total_count) ==
    IF total_count > 0 THEN FMul(100, FDiv(est_advanced, total_count)) ELSE FZero

calculate_correct_totals(referral_df) ==
    LET sources_only == SourcesOnly(referral_df)
        (* referral_df['Total applications'].iloc[0] fails on a frame without rows *)
        iloc_fails   == "Total applications" \in referral_df.columns /\ referral_df.rows = <<>>
        all_row      == AllRow(referral_df)
        total_count  == all_row.rows[1]["Count"]
        sum_advanced == Sum(Column(sources_only, "Stage 2 advanced"))
        sum_rejected == Sum(Column(sources_only, "Stage 2 rejected"))
        sum_pending  == Sum(Column(sources_only, "Stage 2 pending"))
        sum_total    == Sum(Column(sources_only, "Count"))
        est_advanced == Estimate(sum_advanced, total_count, sum_total)
        est_rejected == Estimate(sum_rejected, total_count, sum_total)
        est_pending  == Estimate(sum_pending, total_count, sum_total)
        ret ==
            IF "Source" \notin referral_df.columns THEN [type |-> "KeyError"]
            ELSE IF iloc_fails THEN [type |-> "IndexError"]
            ELSE IF Len(all_row.rows) > 0
            THEN IF ~(ReferralColumns \subseteq referral_df.columns)
                 THEN [type |-> "KeyError"]
                 ELSE [type     |-> "dict",
                       count    |-> total_count,
                       advanced |-> est_advanced,
                       rejected |-> est_rejected,
                       pending  |-> est_pending,
                       advancement_rate |-> AdvancementRate(est_advanced, total_count)]
            ELSE [type |-> "None"]
    IN  [ret |-> ret, arg |-> referral_df]

(***************************************************************************)
(* Sorting.  sort_values on several keys is a stable lexicographic sort;   *)
(* on one key it uses kind='quicksort', which is not stable: what it does  *)
(* with equal keys depends on the build (numpy version, CPU dispatch,      *)
(* length of the array) but is the same on every call.  The two outcomes   *)
(* modelled are ties kept in order and ties reversed.                      *)
(***************************************************************************)
(* the text values of the model in string order *)
StringOrder == <<ALL, NO_RESPONSE, "SourceA", "SourceB", "handle1", "handle2">>

StringRank(str) == CHOOSE k \in 1..Len(StringOrder) : StringOrder[k] = str

(* order of a text key, na_position='last' *)
TextLess(a, b) ==
    IF a = NaN THEN FALSE ELSE IF b = NaN THEN TRUE ELSE StringRank(a) < StringRank(b)

(* order of two cells of the column col *)
KeyLess(col, a, b) == IF col \in TextColumns THEN TextLess(a, b) ELSE a < b

(* order of two rows on the keys by, the first key first *)
RowLess(by, r1, r2) ==
    \E k \in 1..Len(by) :
        /\ \A j \in 1..(k - 1) : r1[by[j]] = r2[by[j]]
        /\ KeyLess(by[k], r1[by[k]], r2[by[k]])

(* df.sort_values(by): a new frame *)
sort_values(df, by, keep_ties) ==
    LET n == Len(df.rows)
        Before(j, i) ==
            \/ RowLess(by, df.rows[j], df.rows[i])
            \/ /\ ~RowLess(by, df.rows[i], df.rows[j])
               /\ (IF keep_ties THEN j < i ELSE j > i)
        Rank(i) == Cardinality({j \in 1..n : Before(j, i)}) + 1
    IN  DataFrame(df.columns, [k \in 1..n |-> df.rows[CHOOSE i \in 1..n : Rank(i) = k]])

(* Series.unique(): the distinct values in order of first appearance *)
Unique(series) ==
    LET firsts == SelectSeq([i \in 1..Len(series) |-> i],
                            LAMBDA i : \A j \in 1..(i - 1) : series[j] # series[i])
    IN  [k \in 1..Len(firsts) |-> series[firsts[k]]]

(* differences that are never negative *)
Diff_clamped(series) ==
    [i \in 1..Len(series) |->
        IF i = 1 THEN <<>>
        ELSE <<IF series[i] < series[i - 1] THEN 0 ELSE series[i] - series[i - 1]>>]

(* differences from the first value instead of the one before *)
Diff_from_first(series) ==
    [i \in 1..Len(series) |-> IF i = 1 THEN <<>> ELSE <<series[i] - series[1]>>]

(* Series.diff(): NaN (the empty tuple) first, then the differences *)
Diff(series) ==
    [i \in 1..Len(series) |-> IF i = 1 THEN <<>> ELSE <<series[i] - series[i - 1]>>]

(* fillna(0): NaN replaced by 0 *)
FillNa_zero(series, other) ==
    [i \in 1..Len(series) |-> IF series[i] = <<>> THEN 0 ELSE series[i][1]]

(* Series.fillna(other): NaN replaced by the value of other in the same row *)
FillNa(series, other) ==
    [i \in 1..Len(series) |-> IF series[i] = <<>> THEN other[i] ELSE series[i][1]]

(* source_df[col] = series: the frame with the column added *)
Assign(df, col, series) ==
    DataFrame(df.columns \cup {col},
              [i \in 1..Len(df.rows) |-> df.rows[i] @@ (col :> series[i])])

(* the rows of a list of frames, one frame after the other *)
RECURSIVE ConcatRows(_)
ConcatRows(frames) ==
    IF frames = <<>> THEN <<>> ELSE Head(frames).rows \o ConcatRows(Tail(frames))

DailyColumns == {"Source", "Date", "Cumulative count", "Cumulative stage 2 advanced",
                 "Cumulative stage 2 rejected", "Cumulative stage 2 pending"}

NewColumns == {"New count", "New advanced", "New rejected", "New pending"}

(***************************************************************************)
(* get_daily_new_applications(referral_daily_df)                           *)
(***************************************************************************)
(* line 135: a new frame, sorted by source and date *)
SortBySourceDate(referral_daily_df) == sort_values(referral_daily_df, <<"Source", "Date">>, TRUE)

(* lines 144-147: one New column from one Cumulative column *)
NewFromCumulative(cumulative) == FillNa(Diff(cumulative), cumulative)

(* the differences taken over the whole sorted table before it is split by *)
(* source                                                                  *)
SourceFrame_diff_before_split(df, source) ==
    LET with_count ==
            Assign(df, "New count", NewFromCumulative(Column(df, "Cumulative count")))
        with_advanced ==
            Assign(with_count, "New advanced",
                   NewFromCumulative(Column(with_count, "Cumulative stage 2 advanced")))
        with_rejected ==
            Assign(with_advanced, "New rejected",
                   NewFromCumulative(Column(with_advanced, "Cumulative stage 2 rejected")))
        with_pending ==
            Assign(with_rejected, "New pending",
                   NewFromCumulative(Column(with_rejected, "Cumulative stage 2 pending")))
    IN  sort_values(WhereEq(with_pending, "Source", source), <<"Date">>, quicksort_stable)

(* lines 140-147: one pass of the loop body, the frame appended to result *)
SourceFrame(df, source) ==
    LET source_df == sort_values(WhereEq(df, "Source", source), <<"Date">>, quicksort_stable)
        with_count ==
            Assign(source_df, "New count",
                   NewFromCumulative(Column(source_df, "Cumulative count")))
        with_advanced ==
            Assign(with_count, "New advanced",
                   NewFromCumulative(Column(with_count, "Cumulative stage 2 advanced")))
        with_rejected ==
            Assign(with_advanced, "New rejected",
                   NewFromCumulative(Column(with_advanced, "Cumulative stage 2 rejected")))
    IN  Assign(with_rejected, "New pending",
               NewFromCumulative(Column(with_rejected, "Cumulative stage 2 pending")))

(* a result list kept at module level: the frames of the call before are  *)
(* still in it                                                             *)
ResultList_module_level(df) ==
    LET sources == Unique(Column(df, "Source"))
        earlier == SelectSeq(calls, LAMBDA c : /\ c.fn = "get_daily_new_applications"
                                               /\ c.ret.type = "DataFrame")
        kept    == IF earlier = <<>> THEN <<>>
                   ELSE <<DataFrame(earlier[Len(earlier)].ret.columns,
                                    earlier[Len(earlier)].ret.rows)>>
    IN  kept \o [k \in 1..Len(sources) |-> SourceFrame(df, sources[k])]

(* lines 138-149: the list result after the loop over the sources of df *)
ResultList(df) ==
    LET sources == Unique(Column(df, "Source"))
    IN  [k \in 1..Len(sources) |-> SourceFrame(df, sources[k])]

(* line 151: pd.concat(result, ignore_index=True); an empty list raises *)
Concat(result) ==
    IF result = <<>> THEN [type |-> "ValueError"]
    ELSE [type    |-> "DataFrame",
          columns |-> UNION {result[k].columns : k \in DOMAIN result},
          rows    |-> ConcatRows(result)]

(* sort_values(..., inplace=True): the argument itself is sorted *)
get_daily_new_applications_inplace(referral_daily_df) ==
    LET df == SortBySourceDate(referral_daily_df)
    IN  [ret |-> Concat(ResultList(df)), arg |-> df]

get_daily_new_applications(referral_daily_df) ==
    LET df == SortBySourceDate(referral_daily_df)
    IN  [ret |-> Concat(ResultList(df)), arg |-> referral_daily_df]

(***************************************************************************)
(* generate_detailed_report, section 2.1: the daily new applications of    *)
(* the (all) rows, computed in the report itself.                          *)
(***************************************************************************)
(* the (all) rows differenced in table order, without the sort *)
all_daily_unsorted(referral_daily_df) ==
    LET all_daily == WhereEq(referral_daily_df, "Source", ALL)
        with_new  == Assign(all_daily, "New Apps",
                            NewFromCumulative(Column(all_daily, "Cumulative count")))
    IN  [type |-> "DataFrame", columns |-> with_new.columns, rows |-> with_new.rows]

(* generate_reports.py lines 487 and 498: all_daily with its 'New Apps' *)
all_daily(referral_daily_df) ==
    LET sorted   == sort_values(WhereEq(referral_daily_df, "Source", ALL), <<"Date">>,
                                quicksort_stable)
        with_new == Assign(sorted, "New Apps",
                           NewFromCumulative(Column(sorted, "Cumulative count")))
    IN  [type |-> "DataFrame", columns |-> with_new.columns, rows |-> with_new.rows]

PosthogColumns == {"Handle", "Date", "Events", "Pageviews", "Unique visitors",
                   "Apply page views", "Program page views"}

(* lines 163-167: the columns that agg sums *)
SummedColumns == {"Events", "Pageviews", "Unique visitors", "Apply page views",
                  "Program page views"}

(* groupby keys: the distinct values of a series in ascending order *)
GroupKeys(series) ==
    LET values == {series[i] : i \in DOMAIN series}
    IN  [k \in 1..Cardinality(values) |->
            CHOOSE v \in values : Cardinality({w \in values : w < v}) = k - 1]

(***************************************************************************)
(* get_total_daily_traffic(posthog_daily_df)                               *)
(***************************************************************************)
get_total_daily_traffic(posthog_daily_df) ==
    LET df == WhereNe(posthog_daily_df, "Handle", ALL)
        dates == GroupKeys(Column(df, "Date"))
        daily_totals ==
            [k \in 1..Len(dates) |->
                [col \in {"Date"} \cup SummedColumns |->
                    IF col = "Date" THEN dates[k]
                    ELSE Sum(Column(WhereEq(df, "Date", dates[k]), col))]]
    IN  [ret |-> [type    |-> "DataFrame",
                  columns |-> {"Date"} \cup SummedColumns,
                  rows    |-> daily_totals],
         arg |-> posthog_daily_df]

(***************************************************************************)
(* get_top_sources and get_sources_by_quality.  The cells of the column    *)
(* 'Advancement Rate' are float64 values; the other numeric cells are      *)
(* integers.                                                               *)
(***************************************************************************)
(* float64 infinities and the float64 NaN, which have no significand here *)
FInf(sign) == [sign |-> sign, mant |-> <<>>, exp |-> 1024]

FNaN == [sign |-> 0, mant |-> <<>>, exp |-> 1025]

(* a / b * 100 on two int64 cells, as the Series arithmetic of line 196    *)
(* does: division by zero gives an infinity, 0 / 0 gives NaN               *)
RateOf(advanced, count) ==
    IF count = 0
    THEN IF advanced = 0 THEN FNaN ELSE FInf(SignOf(advanced))
    ELSE FMul(100, FDiv(IF count < 0 THEN -advanced ELSE advanced, Abs(count)))

(* a < b on float64 values *)
FLess(a, b) ==
    IF a = FNaN \/ b = FNaN \/ a = b THEN FALSE
    ELSE IF a = FInf(0) \/ b = FInf(1) THEN FALSE
    ELSE IF a = FInf(1) \/ b = FInf(0) THEN TRUE
    ELSE FLeq(a, b)

(* a < b on two cells of the column col *)
CellLess(col, a, b) == IF col = "Advancement Rate" THEN FLess(a, b) ELSE a < b

(* a cell that sorts last whatever the order: NaN *)
CellIsNaN(col, a) == col = "Advancement Rate" /\ a = FNaN

(* df[df[col] >= value]: a new frame *)
WhereGe(df, col, value) ==
    DataFrame(df.columns, SelectSeq(df.rows, LAMBDA row : row[col] >= value))

(* the first n rows as they stand *)
nlargest_head(df, n, column) ==
    IF n <= 0 THEN DataFrame(df.columns, <<>>)
    ELSE DataFrame(df.columns,
                   SubSeq(df.rows, 1, IF n < Len(df.rows) THEN n ELSE Len(df.rows)))

(* df.nlargest(n, column), keep='first': the n rows with the largest cells *)
(* in descending order, NaN last.  With n < len(df) the ties are ordered   *)
(* by a mergesort and keep their order; with n >= len(df) the frame is     *)
(* sorted by sort_values(ascending=False), whose default kind does not     *)
(* promise to keep ties in order.                                          *)
nlargest(df, n, column) ==
    LET len == Len(df.rows)
        keep_ties == IF n >= len THEN quicksort_stable ELSE TRUE
        Larger(j, i) ==
            IF CellIsNaN(column, df.rows[j][column]) THEN FALSE
            ELSE IF CellIsNaN(column, df.rows[i][column]) THEN TRUE
            ELSE CellLess(column, df.rows[i][column], df.rows[j][column])
        Before(j, i) ==
            \/ Larger(j, i)
            \/ /\ ~Larger(i, j)
               /\ (IF keep_ties THEN j < i ELSE j > i)
        Rank(i) == Cardinality({j \in 1..len : Before(j, i)}) + 1
        sorted == [k \in 1..len |-> df.rows[CHOOSE i \in 1..len : Rank(i) = k]]
    IN  IF n <= 0 THEN DataFrame(df.columns, <<>>)
        ELSE DataFrame(df.columns, SubSeq(sorted, 1, IF n < len THEN n ELSE len))

get_top_sources(referral_df, n, metric, min_count) ==
    LET df       == NotIsIn(referral_df, "Source", {ALL, NO_RESPONSE})
        filtered == IF min_count > 0 THEN WhereGe(df, "Count", min_count) ELSE df
        top      == nlargest(filtered, n, metric)
    IN  [ret |-> [type |-> "DataFrame", columns |-> top.columns, rows |-> top.rows],
         arg |-> referral_df]

get_sources_by_quality(referral_df, n, min_count) ==
    LET df        == NotIsIn(referral_df, "Source", {ALL, NO_RESPONSE})
        filtered  == WhereGe(df, "Count", min_count)
        with_rate ==
            Assign(filtered, "Advancement Rate",
                   [i \in DOMAIN filtered.rows |->
                       RateOf(filtered.rows[i]["Stage 2 advanced"], filtered.rows[i]["Count"])])
        top       == nlargest(with_rate, n, "Advancement Rate")
    IN  [ret |-> [type |-> "DataFrame", columns |-> top.columns, rows |-> top.rows],
         arg |-> referral_df]

(***************************************************************************)
(* The loaders.  A file is its header and its rows of cells as read_csv    *)
(* finds them.  A cell of a numeric column is blank, a text that is not a  *)
(* number, or a number; numbers are kept in halves so that a file can hold *)
(* 2.5 or -0.5.                                                            *)
(***************************************************************************)
Blank == [kind |-> "blank"]

Text == [kind |-> "text"]

Number(halves) == [kind |-> "number", halves |-> halves]

(* a float column value that is missing *)
NaNValue == <<>>

(* pd.to_numeric(cell, errors='coerce'): the number in halves, or NaN *)
to_numeric(cell) == IF cell.kind = "number" THEN <<cell.halves>> ELSE NaNValue

(* lines 24, 37, 48, 62: to_numeric(errors='coerce').fillna(0).astype(int); *)
(* astype(int) truncates toward zero                                       *)
Coerce(cell) ==
    LET halves == IF to_numeric(cell) = NaNValue THEN 0 ELSE to_numeric(cell)[1]
    IN  IF halves < 0 THEN -((-halves) \div 2) ELSE halves \div 2

(* the loop over numeric_cols: the columns of the list that the file has   *)
(* are converted, the other columns are left as they are                   *)
ConvertNumeric(df, numeric_cols) ==
    DataFrame(df.columns,
              [i \in DOMAIN df.rows |->
                  [col \in df.columns |->
                      IF col \in numeric_cols THEN Coerce(df.rows[i][col])
                      ELSE df.rows[i][col]]])

(* the dates a file can hold, in calendar order *)
DateTexts == <<"2025-10-01", "2025-10-02">>

(* pd.to_datetime on a cell: the timestamp, here the rank of the day *)
to_datetime(cell) == CHOOSE k \in DOMAIN DateTexts : DateTexts[k] = cell

(* line 56 *)
ConvertDate(df) ==
    DataFrame(df.columns,
              [i \in DOMAIN df.rows |->
                  [col \in df.columns |->
                      IF col = "Date" THEN to_datetime(df.rows[i][col]) ELSE df.rows[i][col]]])

ReferralNumericCols ==
    {"Count", "Total applications", "Stage 2 advanced", "Stage 2 rejected", "Stage 2 pending"}

DailyNumericCols ==
    {"Cumulative count", "Cumulative stage 2 advanced", "Cumulative stage 2 rejected",
     "Cumulative stage 2 pending"}

load_referral_sources(file) ==
    LET df == ConvertNumeric(file, ReferralNumericCols)
    IN  [type |-> "DataFrame", columns |-> df.columns, rows |-> df.rows]

load_referral_daily(file) ==
    LET df == ConvertNumeric(ConvertDate(file), DailyNumericCols)
    IN  [type |-> "DataFrame", columns |-> df.columns, rows |-> df.rows]

(***************************************************************************)
(* Input tables.  The loaders turn the numeric columns into integers; the  *)
(* tables below are what they can return for small files.                  *)
(***************************************************************************)
MaxRows == 3

MaxDailyRows == 3

MaxCalls == 3

SeqsUpTo(S, n) == UNION {[1..k -> S] : k \in 0..n}

ReferralRow(source, count, advanced, rejected, pending) ==
    ("Source" :> source) @@ ("Count" :> count) @@ ("Stage 2 advanced" :> advanced)
        @@ ("Stage 2 rejected" :> rejected) @@ ("Stage 2 pending" :> pending)

ReferralSources == {ALL, NO_RESPONSE, "SourceA", "SourceB"}

(* <<Count, Stage 2 advanced, Stage 2 rejected, Stage 2 pending>> *)
ReferralProfiles == {<<0, 3, 1, 2>>, <<22, 22, 0, 0>>, <<15, 9, 4, 2>>}

ReferralRowPool ==
    {ReferralRow(src, p[1], p[2], p[3], p[4]) : src \in ReferralSources, p \in ReferralProfiles}

(* the table of the scenario of the specification, section 8 *)
ScenarioRows ==
    <<ReferralRow(ALL, 80, 0, 0, 0), ReferralRow("SourceA", 50, 40, 5, 5),
      ReferralRow("SourceB", 50, 40, 5, 5), ReferralRow(NO_RESPONSE, 5, 0, 0, 0)>>

(* the file may or may not have a 'Total applications' column (line 47); *)
(* its cells are blank here, which the loader reads as 0                  *)
ReferralFrame(rs, with_total) ==
    IF with_total
    THEN DataFrame(ReferralColumns \cup {"Total applications"},
                   [i \in DOMAIN rs |-> rs[i] @@ ("Total applications" :> 0)])
    ELSE DataFrame(ReferralColumns, rs)

ReferralTables ==
    {ReferralFrame(rs, with_total) :
        rs \in SeqsUpTo(ReferralRowPool, MaxRows) \cup {ScenarioRows, SubSeq(ScenarioRows, 1, 3)},
        with_total \in BOOLEAN}

DailyRow(source, date, count, advanced, rejected, pending) ==
    ("Source" :> source) @@ ("Date" :> date) @@ ("Cumulative count" :> count)
        @@ ("Cumulative stage 2 advanced" :> advanced)
        @@ ("Cumulative stage 2 rejected" :> rejected)
        @@ ("Cumulative stage 2 pending" :> pending)

DailySources == {ALL, "SourceA", NaN}

DailyDates == {1, 2}

(* <<Cumulative count, advanced, rejected, pending>> *)
DailyProfiles == {<<10, 4, 3, 1>>, <<25, 2, 8, 2>>}

DailyRowPool ==
    {DailyRow(src, d, p[1], p[2], p[3], p[4]) :
        src \in DailySources, d \in DailyDates, p \in DailyProfiles}

(* cumulative counts 10, 25, 25, 40 on four dates, given out of date order *)
SeriesRows ==
    <<DailyRow("SourceA", 3, 25, 6, 2, 9), DailyRow("SourceA", 1, 10, 1, 0, 9),
      DailyRow("SourceA", 4, 40, 9, 3, 8), DailyRow("SourceA", 2, 25, 5, 2, 10)>>

(* a counter reset: cumulative counts 30, 20 *)
ResetRows == <<DailyRow("SourceA", 1, 30, 7, 2, 1), DailyRow("SourceA", 2, 20, 7, 3, 0)>>

DailyTables ==
    {DataFrame(DailyColumns, rs) :
        rs \in SeqsUpTo(DailyRowPool, MaxDailyRows) \cup {SeriesRows, ResetRows}}

PosthogRow(handle, date, events, pageviews, visitors, apply_views, program_views) ==
    ("Handle" :> handle) @@ ("Date" :> date) @@ ("Events" :> events)
        @@ ("Pageviews" :> pageviews) @@ ("Unique visitors" :> visitors)
        @@ ("Apply page views" :> apply_views) @@ ("Program page views" :> program_views)

(* small files for the runs that call every function *)
SampleReferralTables ==
    {ReferralFrame(rs, TRUE) :
        rs \in {ScenarioRows,
                <<ReferralRow("SourceA", 22, 22, 0, 0), ReferralRow(ALL, 15, 9, 4, 2)>>}}

SampleDailyTables ==
    {DataFrame(DailyColumns, rs) :
        rs \in {SeriesRows,
                <<DailyRow("SourceA", 2, 25, 2, 8, 2), DailyRow(NaN, 1, 10, 4, 3, 1),
                  DailyRow(ALL, 1, 10, 4, 3, 1), DailyRow("SourceA", 2, 10, 4, 3, 1)>>}}

SamplePosthogTables ==
    {DataFrame(PosthogColumns, rs) :
        rs \in {<<PosthogRow("handle2", 2, 7, 5, 3, 2, 1), PosthogRow(ALL, 1, 30, 20, 9, 6, 4),
                  PosthogRow("handle1", 1, 4, 3, 2, 1, 0), PosthogRow("handle1", 2, 6, 4, 2, 1, 1)>>,
                <<PosthogRow("handle1", 1, 4, 3, 2, 1, 0)>>}}

(* daily traffic files: rows of the (all) handle, of a named handle and of  *)
(* a blank handle                                                          *)
MaxTrafficRows == 3

PosthogHandles == {ALL, "handle1", NaN}

PosthogDates == {1, 2}

(* <<Events, Pageviews, Unique visitors, Apply page views, Program page views>> *)
PosthogProfiles == {<<4, 3, 2, 1, 0>>, <<7, 5, 3, 2, 1>>}

PosthogRowPool ==
    {PosthogRow(h, d, p[1], p[2], p[3], p[4], p[5]) :
        h \in PosthogHandles, d \in PosthogDates, p \in PosthogProfiles}

PosthogTables ==
    {DataFrame(PosthogColumns, rs) : rs \in SeqsUpTo(PosthogRowPool, MaxTrafficRows)}

(* referral tables for the rankings: the two special rows with the largest *)
(* values, sources above and below 20 applications, one without any        *)
TopRowPool ==
    {ReferralRow(ALL, 80, 70, 5, 5), ReferralRow(NO_RESPONSE, 40, 30, 6, 4),
     ReferralRow("SourceA", 22, 22, 0, 0), ReferralRow("SourceA", 30, 6, 20, 4),
     ReferralRow("SourceB", 15, 9, 4, 2), ReferralRow("SourceB", 0, 6, 1, 2)}

TopTables == {DataFrame(ReferralColumns, rs) : rs \in SeqsUpTo(TopRowPool, MaxRows)}

(* the arguments of the ranking calls *)
TopN == {1, 2}

TopMetrics == {"Count", "Stage 2 advanced"}

TopMinCounts == {0, 20}

(* the files on disk: cells as they are written, a column possibly absent *)
RawReferralRowPool ==
    {ReferralRow(ALL, Number(30), Number(18), Number(8), Number(4)),
     ReferralRow(ALL, Number(-10), Blank, Blank, Text),
     ReferralRow("SourceA", Number(44), Number(44), Number(0), Number(0)),
     ReferralRow("SourceA", Number(44), Number(-8), Blank, Text),
     ReferralRow("SourceB", Number(5), Number(-1), Text, Blank)}

RawReferralHeaders == {ReferralColumns, ReferralColumns \ {"Stage 2 pending"}}

RawReferralFiles ==
    {DataFrame(cols, [i \in DOMAIN rs |-> [col \in cols |-> rs[i][col]]]) :
        rs \in SeqsUpTo(RawReferralRowPool, MaxRows), cols \in RawReferralHeaders}

RawDailyRowPool ==
    {DailyRow("SourceA", "2025-10-01", Number(20), Number(8), Blank, Text),
     DailyRow("SourceA", "2025-10-02", Number(-6), Number(5), Number(3), Number(0))}

RawDailyFiles ==
    {DataFrame(DailyColumns, rs) : rs \in SeqsUpTo(RawDailyRowPool, MaxDailyRows)}

(***************************************************************************)
(* The runs.  load_all_data reads the files again; each function is called *)
(* on the current table and the call is recorded.                          *)
(***************************************************************************)
Call(fn, arg, ret) == [fn |-> fn, arg |-> arg, ret |-> ret]

load_all_data ==
    /\ referral' \in SampleReferralTables
    /\ referral_daily' \in SampleDailyTables
    /\ posthog_daily' \in SamplePosthogTables
    /\ UNCHANGED <<quicksort_stable, calls>>

call_calculate_correct_totals ==
    /\ Len(calls) < MaxCalls
    /\ LET r == calculate_correct_totals(referral) IN
        /\ calls' = Append(calls, Call("calculate_correct_totals", referral, r.ret))
        /\ referral' = r.arg
    /\ UNCHANGED <<referral_daily, posthog_daily, quicksort_stable>>

call_get_daily_new_applications ==
    /\ Len(calls) < MaxCalls
    /\ LET r == get_daily_new_applications(referral_daily) IN
        /\ calls' = Append(calls, Call("get_daily_new_applications", referral_daily, r.ret))
        /\ referral_daily' = r.arg
    /\ UNCHANGED <<referral, posthog_daily, quicksort_stable>>

call_get_total_daily_traffic ==
    /\ Len(calls) < MaxCalls
    /\ LET r == get_total_daily_traffic(posthog_daily) IN
        /\ calls' = Append(calls, Call("get_total_daily_traffic", posthog_daily, r.ret))
        /\ posthog_daily' = r.arg
    /\ UNCHANGED <<referral, referral_daily, quicksort_stable>>

call_get_top_sources ==
    /\ calls = <<>>
    /\ \E n \in TopN, metric \in TopMetrics, min_count \in TopMinCounts :
        LET r == get_top_sources(referral, n, metric, min_count) IN
        /\ calls' = Append(calls, Call("get_top_sources",
                                       [referral_df |-> referral, n |-> n, metric |-> metric,
                                        min_count |-> min_count], r.ret))
        /\ referral' = r.arg
    /\ UNCHANGED <<referral_daily, posthog_daily, quicksort_stable>>

call_get_sources_by_quality ==
    /\ calls = <<>>
    /\ \E n \in TopN, min_count \in TopMinCounts :
        LET r == get_sources_by_quality(referral, n, min_count) IN
        /\ calls' = Append(calls, Call("get_sources_by_quality",
                                       [referral_df |-> referral, n |-> n,
                                        metric |-> "Advancement Rate",
                                        min_count |-> min_count], r.ret))
        /\ referral' = r.arg
    /\ UNCHANGED <<referral_daily, posthog_daily, quicksort_stable>>

(* generate_detailed_report, lines 487-498: reached when the call of line  *)
(* 420 has returned                                                        *)
report_all_daily ==
    /\ Len(calls) = 1
    /\ calls[1].fn = "get_daily_new_applications"
    /\ calls[1].ret.type = "DataFrame"
    /\ calls' = Append(calls, Call("all_daily", referral_daily, all_daily(referral_daily)))
    /\ UNCHANGED <<referral, referral_daily, posthog_daily, quicksort_stable>>

(* load_all_data, lines 206-207, on the files on disk *)
call_load_referral_sources ==
    /\ calls = <<>>
    /\ \E file \in RawReferralFiles :
        LET r == load_referral_sources(file) IN
        /\ calls' = Append(calls, Call("load_referral_sources", file, r))
        /\ referral' = DataFrame(r.columns, r.rows)
    /\ UNCHANGED <<referral_daily, posthog_daily, quicksort_stable>>

call_load_referral_daily ==
    /\ Len(calls) = 1
    /\ \E file \in RawDailyFiles :
        LET r == load_referral_daily(file) IN
        /\ calls' = Append(calls, Call("load_referral_daily", file, r))
        /\ referral_daily' = DataFrame(r.columns, r.rows)
    /\ UNCHANGED <<referral, posthog_daily, quicksort_stable>>

Init ==
    /\ referral \in SampleReferralTables
    /\ referral_daily \in SampleDailyTables
    /\ posthog_daily \in SamplePosthogTables
    /\ quicksort_stable \in BOOLEAN
    /\ calls = <<>>

Next ==
    \/ load_all_data
    \/ call_calculate_correct_totals
    \/ call_get_daily_new_applications
    \/ call_get_total_daily_traffic

Spec == Init /\ [][Next]_vars

(* calculate_correct_totals, called once, on every small referral table *)
InitTotals ==
    /\ referral \in ReferralTables
    /\ referral_daily = DataFrame(DailyColumns, ResetRows)
    /\ posthog_daily = DataFrame(PosthogColumns, <<>>)
    /\ quicksort_stable = TRUE
    /\ calls = <<>>

NextTotals == calls = <<>> /\ call_calculate_correct_totals

SpecTotals == InitTotals /\ [][NextTotals]_vars

(* get_daily_new_applications, called once, on every small daily table *)
InitDaily ==
    /\ referral = ReferralFrame(ScenarioRows, FALSE)
    /\ referral_daily \in DailyTables
    /\ posthog_daily = DataFrame(PosthogColumns, <<>>)
    /\ quicksort_stable \in BOOLEAN
    /\ calls = <<>>

NextDaily == calls = <<>> /\ call_get_daily_new_applications

SpecDaily == InitDaily /\ [][NextDaily]_vars

(* get_total_daily_traffic on every small traffic table *)
InitTraffic ==
    /\ referral = ReferralFrame(ScenarioRows, FALSE)
    /\ referral_daily = DataFrame(DailyColumns, ResetRows)
    /\ posthog_daily \in PosthogTables
    /\ quicksort_stable = TRUE
    /\ calls = <<>>

SpecTraffic == InitTraffic /\ [][call_get_total_daily_traffic]_vars

(* one ranking of every small referral table *)
InitTop ==
    /\ referral \in TopTables
    /\ referral_daily = DataFrame(DailyColumns, ResetRows)
    /\ posthog_daily = DataFrame(PosthogColumns, <<>>)
    /\ quicksort_stable \in BOOLEAN
    /\ calls = <<>>

NextTop == call_get_top_sources \/ call_get_sources_by_quality

SpecTop == InitTop /\ [][NextTop]_vars

(* the detailed report on every small daily table: the call of line 420,   *)
(* then section 2.1                                                        *)
NextReport ==
    \/ calls = <<>> /\ call_get_daily_new_applications
    \/ report_all_daily

SpecReport == InitDaily /\ [][NextReport]_vars

(* the files are loaded, then the totals are computed from the loaded table *)
InitLoad ==
    /\ referral = DataFrame(ReferralColumns, <<>>)
    /\ referral_daily = DataFrame(DailyColumns, <<>>)
    /\ posthog_daily = DataFrame(PosthogColumns, <<>>)
    /\ quicksort_stable = TRUE
    /\ calls = <<>>

NextLoad ==
    \/ call_load_referral_sources
    \/ call_load_referral_daily
    \/ Len(calls) >= 2 /\ call_calculate_correct_totals

SpecLoad == InitLoad /\ [][NextLoad]_vars


(***************************************************************************)
(* Properties of calculate_correct_totals (reconcile), over the recorded   *)
(* calls.  The reference values are computed in exact integer arithmetic.  *)
(***************************************************************************)
TotalsCalls == {i \in DOMAIN calls : calls[i].fn = "calculate_correct_totals"}

HasAllRow(df) == \E i \in DOMAIN df.rows : df.rows[i]["Source"] = ALL

(* the rows other than ALL and NO_RESPONSE *)
SourceRowsOf(df) ==
    {i \in DOMAIN df.rows : df.rows[i]["Source"] \notin {ALL, NO_RESPONSE}}

RECURSIVE SetSum(_, _)
SetSum(S, f) ==
    IF S = {} THEN 0 ELSE LET x == CHOOSE y \in S : TRUE IN f[x] + SetSum(S \ {x}, f)

RawSum(df) == SetSum(SourceRowsOf(df), [i \in DOMAIN df.rows |-> df.rows[i]["Count"]])

RawAdvanced(df) ==
    SetSum(SourceRowsOf(df), [i \in DOMAIN df.rows |-> df.rows[i]["Stage 2 advanced"]])

RawRejected(df) ==
    SetSum(SourceRowsOf(df), [i \in DOMAIN df.rows |-> df.rows[i]["Stage 2 rejected"]])

RawPending(df) ==
    SetSum(SourceRowsOf(df), [i \in DOMAIN df.rows |-> df.rows[i]["Stage 2 pending"]])

(* the count of the first ALL row *)
TrueCount(df) ==
    df.rows[CHOOSE i \in DOMAIN df.rows :
                /\ df.rows[i]["Source"] = ALL
                /\ \A j \in 1..(i - 1) : df.rows[j]["Source"] # ALL]["Count"]

(* C1: called on a table without an ALL row (an empty table included),     *)
(* reconcile fails with an error surfaced to the caller; it returns neither *)
(* a normal result nor a placeholder.                                      *)
C1_MissingTotalRowFails ==
    \A i \in TotalsCalls :
        ~HasAllRow(calls[i].arg) => calls[i].ret.type \notin {"dict", "None"}

(* C2: with an ALL row and raw_sum > 0, each corrected count is            *)
(* floor(raw_X * true_count / raw_sum).                                    *)
C2_FloorOfScaledSum ==
    \A i \in TotalsCalls :
        LET df == calls[i].arg
            r  == calls[i].ret
        IN  (HasAllRow(df) /\ RawSum(df) > 0) =>
                /\ r.type = "dict"
                /\ r.advanced = (RawAdvanced(df) * TrueCount(df)) \div RawSum(df)
                /\ r.rejected = (RawRejected(df) * TrueCount(df)) \div RawSum(df)
                /\ r.pending  = (RawPending(df) * TrueCount(df)) \div RawSum(df)

InPercentRange(rate) == FLeq(FZero, rate) /\ FLeq(rate, FromInt(100))

(* C3 as stated: for any table with an ALL row and non-negative fields,    *)
(* advancement_rate is in [0, 100], and is 0 when true_count is 0.         *)
C3_RateBoundedForAnyInput ==
    \A i \in TotalsCalls :
        LET df == calls[i].arg
            r  == calls[i].ret
        IN  HasAllRow(df) =>
                /\ r.type = "dict"
                /\ InPercentRange(r.advancement_rate)
                /\ (TrueCount(df) = 0 => r.advancement_rate = FZero)

(* C3 as amended: for any table with an ALL row, non-negative fields and   *)
(* raw_advanced <= raw_sum over the source rows, advancement_rate is in    *)
(* [0, 100]; and for any table with an ALL row it is 0 when true_count is  *)
(* 0.                                                                      *)
C3_RateBoundedWhenAdvancedWithinCount ==
    \A i \in TotalsCalls :
        LET df == calls[i].arg
            r  == calls[i].ret
        IN  HasAllRow(df) =>
                /\ r.type = "dict"
                /\ (RawAdvanced(df) <= RawSum(df) => InPercentRange(r.advancement_rate))
                /\ (TrueCount(df) = 0 => r.advancement_rate = FZero)

C3_Witness ==
    \E i \in TotalsCalls :
        LET df == calls[i].arg
        IN  /\ HasAllRow(df)
            /\ RawSum(df) > 0
            /\ RawAdvanced(df) > 0
            /\ RawAdvanced(df) <= RawSum(df)
            /\ TrueCount(df) > 0
            /\ calls[i].ret.advancement_rate # FZero

(* C4: with an ALL row and raw_sum = 0, advanced, rejected and pending are *)
(* 0 whatever true_count and the stage values of the source rows are.      *)
C4_ZeroRawSumGivesZeros ==
    \A i \in TotalsCalls :
        LET df == calls[i].arg
            r  == calls[i].ret
        IN  (HasAllRow(df) /\ RawSum(df) = 0) =>
                r.type = "dict" /\ r.advanced = 0 /\ r.rejected = 0 /\ r.pending = 0

C4_Witness ==
    \E i \in TotalsCalls :
        LET df == calls[i].arg
        IN  /\ HasAllRow(df)
            /\ RawSum(df) = 0
            /\ TrueCount(df) > 0
            /\ RawAdvanced(df) > 0 /\ RawRejected(df) > 0 /\ RawPending(df) > 0

(* the rows of a referral frame without the 'Total applications' cells *)
ReferralCells(df) == [i \in DOMAIN df.rows |-> [col \in ReferralColumns |-> df.rows[i][col]]]

(* C5: the four-row scenario table gives count 80, advanced 64, rejected   *)
(* 8, pending 8 and advancement_rate 80.0.                                 *)
C5_Scenario ==
    \A i \in TotalsCalls :
        ReferralCells(calls[i].arg) = ScenarioRows =>
            calls[i].ret = [type |-> "dict", count |-> 80, advanced |-> 64, rejected |-> 8,
                            pending |-> 8, advancement_rate |-> FromInt(80)]

C5_Witness == \E i \in TotalsCalls : ReferralCells(calls[i].arg) = ScenarioRows

(* C16: with an ALL row, count is the count of the ALL row as it stands,   *)
(* and when it is positive advancement_rate is the float64 value of        *)
(* advanced / count * 100 for the advanced that is returned (the floored   *)
(* one): its whole part is that of 100 * advanced / count, or one less     *)
(* when that quotient is a whole number.                                   *)
C16_CountKeptRateFromFloored ==
    \A i \in TotalsCalls :
        LET df == calls[i].arg
            r  == calls[i].ret
        IN  HasAllRow(df) =>
                /\ r.type = "dict"
                /\ r.count = TrueCount(df)
                /\ r.count > 0 =>
                      LET whole == (100 * r.advanced) \div r.count
                          exact == (100 * r.advanced) % r.count = 0
                      IN  /\ r.advancement_rate = FMul(100, FDiv(r.advanced, r.count))
                          /\ FTrunc(r.advancement_rate) \in
                                 (IF exact THEN {whole - 1, whole} ELSE {whole})

C16_Witness ==
    \E i \in TotalsCalls :
        LET df == calls[i].arg
            r  == calls[i].ret
        IN  /\ HasAllRow(df)
            /\ TrueCount(df) > 0
            /\ RawSum(df) > 0
            /\ RawSum(df) # TrueCount(df)
            /\ r.advanced > 0
            /\ (RawAdvanced(df) * TrueCount(df)) % RawSum(df) # 0
            /\ (100 * RawAdvanced(df)) \div RawSum(df) # (100 * r.advanced) \div r.count

(* the table without its NO_RESPONSE rows and with the three stage fields  *)
(* of its ALL rows set to 0                                                *)
WithoutIgnoredValues(df) ==
    LET kept == SelectSeq(df.rows, LAMBDA row : row["Source"] # NO_RESPONSE)
    IN  DataFrame(df.columns,
                  [k \in DOMAIN kept |->
                      IF kept[k]["Source"] = ALL
                      THEN [col \in DOMAIN kept[k] |->
                               IF col \in {"Stage 2 advanced", "Stage 2 rejected",
                                           "Stage 2 pending"}
                               THEN 0 ELSE kept[k][col]]
                      ELSE kept[k]])

(* C17: with an ALL row, reconcile gives what it gives on the table from   *)
(* which the NO_RESPONSE rows are taken out and in which the stage fields  *)
(* of the ALL row are 0; so two tables that differ only there give the     *)
(* same result.                                                            *)
C17_IgnoresNoResponseAndAllStages ==
    \A i \in TotalsCalls :
        LET df == calls[i].arg
        IN  HasAllRow(df) =>
                /\ calls[i].ret.type = "dict"
                /\ calls[i].ret = calculate_correct_totals(WithoutIgnoredValues(df)).ret

C17_Witness ==
    \E i \in TotalsCalls :
        LET df == calls[i].arg
        IN  /\ \E j \in DOMAIN df.rows :
                  /\ df.rows[j]["Source"] = NO_RESPONSE
                  /\ df.rows[j]["Count"] > 0 /\ df.rows[j]["Stage 2 advanced"] > 0
            /\ \E j \in DOMAIN df.rows :
                  /\ df.rows[j]["Source"] = ALL
                  /\ df.rows[j]["Count"] > 0 /\ df.rows[j]["Stage 2 advanced"] > 0
            /\ RawSum(df) > 0
            /\ calls[i].ret.advanced > 0
(* every source row has non-negative fields and no more classified records *)
(* than records                                                            *)
StagesWithinCount(df) ==
    \A j \in SourceRowsOf(df) :
        LET row == df.rows[j]
        IN  /\ row["Count"] >= 0 /\ row["Stage 2 advanced"] >= 0
            /\ row["Stage 2 rejected"] >= 0 /\ row["Stage 2 pending"] >= 0
            /\ row["Stage 2 advanced"] + row["Stage 2 rejected"] + row["Stage 2 pending"]
                   <= row["Count"]

(* C19: when every source row has stage_advanced + stage_rejected +        *)
(* stage_pending <= count with non-negative fields, then for any count >=  *)
(* 0 of the ALL row the result has advanced + rejected + pending <= count  *)
(* and each of the three in 0..count.                                      *)
C19_NoOverAllocation ==
    \A i \in TotalsCalls :
        LET df == calls[i].arg
            r  == calls[i].ret
        IN  (HasAllRow(df) /\ TrueCount(df) >= 0 /\ StagesWithinCount(df)) =>
                /\ r.type = "dict"
                /\ r.advanced + r.rejected + r.pending <= r.count
                /\ r.advanced \in 0..r.count
                /\ r.rejected \in 0..r.count
                /\ r.pending \in 0..r.count

C19_Witness ==
    \E i \in TotalsCalls :
        LET df == calls[i].arg
            r  == calls[i].ret
        IN  /\ HasAllRow(df) /\ StagesWithinCount(df)
            /\ Cardinality(SourceRowsOf(df)) >= 2
            /\ RawSum(df) > TrueCount(df)
            /\ RawAdvanced(df) > 0 /\ RawRejected(df) > 0 /\ RawPending(df) > 0
            /\ (RawAdvanced(df) * TrueCount(df)) % RawSum(df) # 0
            /\ r.advanced + r.rejected + r.pending < r.count
            /\ r.advanced > 0

(* the positions of the ALL rows *)
AllRowsOf(df) == {j \in DOMAIN df.rows : df.rows[j]["Source"] = ALL}

(* est is the whole part of num / den, or one less when num / den is a     *)
(* whole number (the float64 product may fall just short of it)            *)
IsScaled(est, num, den) ==
    IF num % den = 0 THEN est \in {num \div den - 1, num \div den} ELSE est = num \div den

(* C21: with more than one ALL row, count is the count of the first ALL    *)
(* row in table order, and the three estimates are the sums over the rows  *)
(* that are neither ALL nor NO_RESPONSE scaled by that count over their    *)
(* summed count (0 when that sum is 0): no ALL row adds to any sum.        *)
C21_FirstAllRowCounts ==
    \A i \in TotalsCalls :
        LET df == calls[i].arg
            r  == calls[i].ret
        IN  Cardinality(AllRowsOf(df)) > 1 =>
                /\ r.type = "dict"
                /\ r.count = TrueCount(df)
                /\ IF RawSum(df) = 0
                   THEN r.advanced = 0 /\ r.rejected = 0 /\ r.pending = 0
                   ELSE /\ IsScaled(r.advanced, RawAdvanced(df) * r.count, RawSum(df))
                        /\ IsScaled(r.rejected, RawRejected(df) * r.count, RawSum(df))
                        /\ IsScaled(r.pending, RawPending(df) * r.count, RawSum(df))

C21_Witness ==
    \E i \in TotalsCalls :
        LET df == calls[i].arg
            r  == calls[i].ret
        IN  /\ \E j, k \in AllRowsOf(df) :
                  /\ j < k
                  /\ df.rows[j]["Count"] # df.rows[k]["Count"]
                  /\ df.rows[j]["Count"] > 0 /\ df.rows[k]["Count"] > 0
                  /\ df.rows[k]["Stage 2 advanced"] > 0
            /\ RawSum(df) > 0
            /\ r.advanced > 0
            /\ r.advanced # RawAdvanced(df)

(***************************************************************************)
(* Properties of get_top_sources and get_sources_by_quality.               *)
(***************************************************************************)
TopCalls == {i \in DOMAIN calls : calls[i].fn \in {"get_top_sources", "get_sources_by_quality"}}

(* the input rows a ranking call may return *)
Eligible(call) ==
    LET rows == call.arg.referral_df.rows
    IN  {j \in DOMAIN rows :
            /\ rows[j]["Source"] \notin {ALL, NO_RESPONSE}
            /\ (call.fn = "get_sources_by_quality" \/ call.arg.min_count > 0)
                    => rows[j]["Count"] >= call.arg.min_count}

(* row x ranks strictly below row y for the call: on the chosen column,    *)
(* or on Stage 2 advanced / Count compared as exact fractions (a source    *)
(* without applications and with advanced ones ranks above all)            *)
RanksBelow(call, x, y) ==
    IF call.fn = "get_top_sources" THEN x[call.arg.metric] < y[call.arg.metric]
    ELSE IF x["Count"] = 0 THEN FALSE
    ELSE IF y["Count"] = 0 THEN y["Stage 2 advanced"] > 0
    ELSE x["Stage 2 advanced"] * y["Count"] < y["Stage 2 advanced"] * x["Count"]

(* C18: a ranking call returns min(n, number of eligible rows) rows, each  *)
(* an eligible input row (never ALL or NO_RESPONSE, Count >= min_count     *)
(* when the filter applies) returned no more often than it is in the       *)
(* input, in descending order of the ranking metric, and no eligible row   *)
(* left out ranks strictly above a returned one.                           *)
C18_TopRowsOfEligible ==
    \A i \in TopCalls :
        LET call == calls[i]
            rows == call.arg.referral_df.rows
            out  == [k \in DOMAIN call.ret.rows |->
                        [col \in ReferralColumns |-> call.ret.rows[k][col]]]
            elig == Eligible(call)
            Times(row, seq, S) == Cardinality({j \in S : seq[j] = row})
        IN  /\ call.ret.type = "DataFrame"
            /\ Len(out) <= call.arg.n
            /\ Len(out) = (IF call.arg.n < Cardinality(elig) THEN call.arg.n
                           ELSE Cardinality(elig))
            /\ \A k \in DOMAIN out :
                  /\ \E j \in elig : rows[j] = out[k]
                  /\ Times(out[k], out, DOMAIN out) <= Times(out[k], rows, elig)
            /\ \A k, l \in DOMAIN out : k < l => ~RanksBelow(call, out[k], out[l])
            /\ \A j \in elig :
                  Times(rows[j], out, DOMAIN out) < Times(rows[j], rows, elig)
                      => \A k \in DOMAIN out : ~RanksBelow(call, out[k], rows[j])

C18_Witness ==
    \E i \in TopCalls :
        LET call == calls[i]
            rows == call.arg.referral_df.rows
            top  == [col \in ReferralColumns |-> call.ret.rows[1][col]]
        IN  /\ call.fn = "get_sources_by_quality"
            /\ \E k \in DOMAIN rows : k \notin Eligible(call)
            /\ Cardinality(Eligible(call)) > Len(call.ret.rows)
            /\ Len(call.ret.rows) >= 1
            /\ \E k, l \in Eligible(call) :
                  /\ k < l
                  /\ RanksBelow(call, rows[k], rows[l])
                  /\ rows[l] = top
                  /\ rows[k]["Count"] > rows[l]["Count"]

(***************************************************************************)
(* Properties of get_daily_new_applications (dailyDeltas).                 *)
(***************************************************************************)
DailyCalls == {i \in DOMAIN calls : calls[i].fn = "get_daily_new_applications"}

(* the four cumulative values of a row, and its four deltas *)
CumulativeOf(row) ==
    <<row["Cumulative count"], row["Cumulative stage 2 advanced"],
      row["Cumulative stage 2 rejected"], row["Cumulative stage 2 pending"]>>

NewOf(row) ==
    <<row["New count"], row["New advanced"], row["New rejected"], row["New pending"]>>

(* row k of out is the first output row of its entity *)
FirstOfEntity(out, k) == k = 1 \/ out[k - 1].Source # out[k].Source

(* the rows of rows that carry this entity, date and cumulative values *)
Matching(rows, row) ==
    {j \in DOMAIN rows : /\ rows[j].Source = row.Source
                         /\ rows[j].Date = row.Date
                         /\ CumulativeOf(rows[j]) = CumulativeOf(row)}

(* C6: for every entity and each of the four fields, the delta of the      *)
(* entity's earliest-dated row is that row's own cumulative value, and the *)
(* delta of every later row is its cumulative value minus that of the row  *)
(* just before it in the entity's date order; cumulative 10, 25, 25, 40    *)
(* gives 10, 15, 0, 15.                                                    *)
C6_DeltaFromPrecedingRow ==
    \A i \in DailyCalls :
        LET in  == calls[i].arg.rows
            r   == calls[i].ret
        IN  r.type = "DataFrame" =>
              LET out == r.rows IN
              /\ \A j \in DOMAIN in :
                    in[j].Source # NaN =>
                        Cardinality(Matching(out, in[j])) = Cardinality(Matching(in, in[j]))
              /\ \A k \in DOMAIN out :
                    /\ \A j \in 1..(k - 1) :
                          out[j].Source = out[k].Source => out[k - 1].Source = out[k].Source
                    /\ IF FirstOfEntity(out, k)
                       THEN /\ NewOf(out[k]) = CumulativeOf(out[k])
                            /\ \A j \in DOMAIN in :
                                  in[j].Source = out[k].Source => out[k].Date <= in[j].Date
                       ELSE /\ out[k - 1].Date <= out[k].Date
                            /\ \A f \in 1..4 :
                                  NewOf(out[k])[f] =
                                      CumulativeOf(out[k])[f] - CumulativeOf(out[k - 1])[f]
              /\ (in = SeriesRows =>
                    [k \in DOMAIN out |-> out[k]["New count"]] = <<10, 15, 0, 15>>)

C6_Witness ==
    \E i \in DailyCalls :
        calls[i].arg.rows = SeriesRows /\ calls[i].ret.type = "DataFrame"

(* the rows of rows with this (entity_id, date) pair; a missing entity_id  *)
(* is an identity like any other                                           *)
SameKey(rows, row) ==
    {j \in DOMAIN rows : rows[j].Source = row.Source /\ rows[j].Date = row.Date}

(* C7: for any input table dailyDeltas returns as many rows as it was      *)
(* given, and every (entity_id, date) pair of the input is in the output   *)
(* as often as in the input, whatever the entity_id (a missing one         *)
(* included).                                                              *)
C7_RowCountPreserved ==
    \A i \in DailyCalls :
        LET in == calls[i].arg.rows
            r  == calls[i].ret
        IN  /\ r.type = "DataFrame"
            /\ Len(r.rows) = Len(in)
            /\ \A j \in DOMAIN in :
                  Cardinality(SameKey(r.rows, in[j])) = Cardinality(SameKey(in, in[j]))

(* C8: when the cumulative counter of an entity decreases from one row to  *)
(* the next, the negative difference is emitted unchanged: no error is     *)
(* raised, no row of the entity is dropped and the delta is not clamped;   *)
(* cumulative 30, 20 gives 30, -10.                                        *)
C8_NegativeDeltaPassedThrough ==
    \A i \in DailyCalls :
        LET in == calls[i].arg.rows
            r  == calls[i].ret
        IN  in # <<>> =>
              /\ r.type = "DataFrame"
              /\ \A j \in DOMAIN in :
                    in[j].Source # NaN =>
                        Cardinality(SameKey(r.rows, in[j])) = Cardinality(SameKey(in, in[j]))
              /\ \A k \in 2..Len(r.rows) : \A f \in 1..4 :
                    (/\ r.rows[k - 1].Source = r.rows[k].Source
                     /\ CumulativeOf(r.rows[k])[f] < CumulativeOf(r.rows[k - 1])[f])
                    => /\ NewOf(r.rows[k])[f] < 0
                       /\ NewOf(r.rows[k])[f] =
                              CumulativeOf(r.rows[k])[f] - CumulativeOf(r.rows[k - 1])[f]
              /\ (in = ResetRows =>
                    [k \in DOMAIN r.rows |-> r.rows[k]["New count"]] = <<30, -10>>)

C8_Witness ==
    \E i \in DailyCalls :
        /\ calls[i].arg.rows = ResetRows
        /\ calls[i].ret.type = "DataFrame"
        /\ \E k \in DOMAIN calls[i].ret.rows : calls[i].ret.rows[k]["New count"] < 0

(* the rows of an entity, in table order *)
EntityRows(rows, entity) == SelectSeq(rows, LAMBDA row : row.Source = entity)

(* the entities of a table; a blank Source names none *)
Entities(rows) == {rows[j].Source : j \in DOMAIN rows} \ {NaN}

(* C14: the output rows of an entity, deltas included, are those that      *)
(* dailyDeltas returns for the table made of that entity's rows alone:     *)
(* rows of other entities, whatever they are, change nothing in them.      *)
C14_EntityRowsAlone ==
    \A i \in DailyCalls :
        LET df == calls[i].arg
            r  == calls[i].ret
        IN  \A entity \in Entities(df.rows) :
                /\ r.type = "DataFrame"
                /\ EntityRows(r.rows, entity) =
                       get_daily_new_applications(
                           DataFrame(df.columns, EntityRows(df.rows, entity))).ret.rows

C14_Witness ==
    \E i \in DailyCalls :
        LET in  == calls[i].arg.rows
            out == calls[i].ret.rows
        IN  /\ Cardinality(Entities(in)) >= 2
            /\ \E k \in 2..(Len(out) - 1) :
                  /\ out[k - 1].Source # out[k].Source
                  /\ out[k + 1].Source = out[k].Source
                  /\ CumulativeOf(out[k - 1]) # CumulativeOf(out[k])

(* the output row without its four New columns *)
InputCells(row) == [col \in DailyColumns |-> row[col]]

(* C15: the rows of one entity that carry the same date come out in their  *)
(* input order, each next to the one before it, and the delta of the later *)
(* one is its cumulative value minus that of the earlier one.              *)
C15_TiesKeepInputOrder ==
    \A i \in DailyCalls :
        LET in == calls[i].arg.rows
            r  == calls[i].ret
        IN  \A j \in DOMAIN in :
                in[j].Source # NaN =>
                    /\ r.type = "DataFrame"
                    /\ LET same == SelectSeq(r.rows, LAMBDA row : /\ row.Source = in[j].Source
                                                                  /\ row.Date = in[j].Date)
                       IN  /\ [k \in DOMAIN same |-> InputCells(same[k])] =
                                  SelectSeq(in, LAMBDA row : /\ row.Source = in[j].Source
                                                             /\ row.Date = in[j].Date)
                           /\ \A k \in 2..Len(same) : \A f \in 1..4 :
                                  NewOf(same[k])[f] =
                                      CumulativeOf(same[k])[f] - CumulativeOf(same[k - 1])[f]

(* C20: for every entity and each of the four fields, the deltas of the    *)
(* entity's rows up to and including a row, in the date order of the       *)
(* output, add up to the cumulative value of that row, whether or not the  *)
(* series is monotonic; the output holds all the rows of the entity in     *)
(* ascending date order, so all its deltas add up to the cumulative value  *)
(* of its latest row.                                                      *)
C20_DeltasSumToCumulative ==
    \A i \in DailyCalls :
        LET in == calls[i].arg.rows
            r  == calls[i].ret
        IN  \A entity \in Entities(in) :
                /\ r.type = "DataFrame"
                /\ LET out == EntityRows(r.rows, entity)
                   IN  /\ Len(out) = Len(EntityRows(in, entity))
                       /\ \A k \in 2..Len(out) : out[k - 1].Date <= out[k].Date
                       /\ \A j \in DOMAIN in :
                              in[j].Source = entity => in[j].Date <= out[Len(out)].Date
                       /\ \A k \in DOMAIN out : \A f \in 1..4 :
                              SetSum(1..k, [j \in DOMAIN out |-> NewOf(out[j])[f]]) =
                                  CumulativeOf(out[k])[f]

C20_Witness ==
    \E i \in DailyCalls :
        LET out == calls[i].ret.rows
        IN  /\ calls[i].ret.type = "DataFrame"
            /\ \E k \in 3..Len(out) :
                  /\ out[k - 2].Source = out[k].Source /\ out[k - 1].Source = out[k].Source
                  /\ out[k - 1]["New count"] > 0
                  /\ out[k]["New count"] < 0

(* no two rows of one entity carry the same date *)
DistinctDates(rows) ==
    \A j, k \in DOMAIN rows :
        (j # k /\ rows[j].Source = rows[k].Source) => rows[j].Date # rows[k].Date

(* C22: for a daily table with distinct dates per entity, the dates and    *)
(* 'New Apps' values that the detailed report computes for the ALL rows    *)
(* are, date by date, the dates and 'New count' values of the ALL rows in  *)
(* the output of dailyDeltas.                                              *)
C22_ReportMatchesDailyDeltas ==
    \A i, j \in DOMAIN calls :
        (/\ calls[i].fn = "get_daily_new_applications"
         /\ calls[j].fn = "all_daily"
         /\ calls[i].arg = calls[j].arg
         /\ DistinctDates(calls[i].arg.rows))
        => LET deltas == EntityRows(calls[i].ret.rows, ALL)
               inline == calls[j].ret.rows
           IN  /\ calls[j].ret.type = "DataFrame"
               /\ [k \in DOMAIN inline |-> <<inline[k].Date, inline[k]["New Apps"]>>] =
                      [k \in DOMAIN deltas |-> <<deltas[k].Date, deltas[k]["New count"]>>]
               /\ Len(inline) = Len(EntityRows(calls[i].arg.rows, ALL))

C22_Witness ==
    \E j \in DOMAIN calls :
        /\ calls[j].fn = "all_daily"
        /\ DistinctDates(calls[j].arg.rows)
        /\ LET in == calls[j].arg.rows
           IN  /\ \E a, b, c \in DOMAIN in :
                     /\ a < b /\ b < c
                     /\ in[a].Source = ALL /\ in[c].Source = ALL
                     /\ in[b].Source = "SourceA"
                     /\ in[c].Date < in[a].Date
                     /\ in[a]["Cumulative count"] # in[c]["Cumulative count"]
               /\ Len(calls[j].ret.rows) = 2


(***************************************************************************)
(* Properties of sequences of calls.                                       *)
(***************************************************************************)
(* C9: reconcile, dailyDeltas and dailyTotals never mutate their input     *)
(* table: a call leaves every row, column and value of every table as it   *)
(* was (no added columns, no reordering, no changed cells).                *)
C9_InputsNotMutated ==
    [][Len(calls') > Len(calls) =>
            /\ referral' = referral
            /\ referral_daily' = referral_daily
            /\ posthog_daily' = posthog_daily]_vars

C9_Witness ==
    \E i, j, k \in DOMAIN calls :
        /\ calls[i].fn = "calculate_correct_totals" /\ calls[i].arg = referral
        /\ calls[j].fn = "get_daily_new_applications" /\ calls[j].arg = referral_daily
        /\ calls[k].fn = "get_total_daily_traffic" /\ calls[k].arg = posthog_daily
        /\ SortBySourceDate(referral_daily) # referral_daily
        /\ calls[i].ret.type = "dict"
        /\ calls[j].ret.type = "DataFrame"
        /\ calls[k].ret.rows # <<>>

TrafficCalls == {i \in DOMAIN calls : calls[i].fn = "get_total_daily_traffic"}

(* the input rows of a date that do not belong to the (all) handle *)
CountedRows(rows, date) ==
    {j \in DOMAIN rows : rows[j].Date = date /\ rows[j].Handle # ALL}

(* C11: dailyTotals returns one row for each date that has an input row    *)
(* whose handle is not ALL, and the row holds, for each of the five        *)
(* metrics, the sum of the metric over exactly those input rows: the ALL   *)
(* rows add to no total and the values are summed as they are, with no     *)
(* differencing.                                                           *)
C11_SumPerDateWithoutAll ==
    \A i \in TrafficCalls :
        LET in  == calls[i].arg.rows
            r   == calls[i].ret
            out == r.rows
        IN  /\ r.type = "DataFrame"
            /\ {out[k].Date : k \in DOMAIN out} =
                   {in[j].Date : j \in {j \in DOMAIN in : in[j].Handle # ALL}}
            /\ \A k, l \in DOMAIN out : out[k].Date = out[l].Date => k = l
            /\ \A k \in DOMAIN out : \A col \in SummedColumns :
                  out[k][col] =
                      SetSum(CountedRows(in, out[k].Date), [j \in DOMAIN in |-> in[j][col]])

C11_Witness ==
    \E i \in TrafficCalls :
        LET in  == calls[i].arg.rows
            out == calls[i].ret.rows
        IN  /\ \E j \in DOMAIN in : in[j].Handle = ALL /\ CountedRows(in, in[j].Date) # {}
            /\ \E k \in DOMAIN out : Cardinality(CountedRows(in, out[k].Date)) >= 2


(***************************************************************************)
(* Properties of the loaders, and of reconcile on a loaded table.          *)
(***************************************************************************)
LoadCalls == {i \in DOMAIN calls : calls[i].fn \in {"load_referral_sources", "load_referral_daily"}}

(* the number a cell should stand for: 0 for a blank, a text or a negative *)
(* number, else the whole part of the number                               *)
Intended(cell) ==
    IF cell.kind # "number" \/ cell.halves < 0 THEN 0 ELSE cell.halves \div 2

(* the referral table a file should stand for: an absent column counts as  *)
(* a column of zeros                                                       *)
IntendedReferral(file) ==
    DataFrame(ReferralColumns,
              [i \in DOMAIN file.rows |->
                  [col \in ReferralColumns |->
                      IF col = "Source" THEN file.rows[i][col]
                      ELSE IF col \in file.columns THEN Intended(file.rows[i][col])
                      ELSE 0]])

(* C12: reconcile, called on the table loaded from a file, does not fail   *)
(* on a numeric field that is negative, not a number or absent, and gives  *)
(* what it gives on the table in which every such field is 0.              *)
C12_BadFieldsCountAsZero ==
    \A i \in TotalsCalls :
        LET file == calls[1].arg
            r    == calls[i].ret
        IN  /\ r.type \in {"dict", "None"}
            /\ r = calculate_correct_totals(IntendedReferral(file)).ret

(* C13: a loader never fails, and in the table it returns every cell of    *)
(* every numeric column is an integer >= 0: a blank, a text or a negative  *)
(* number has become 0.                                                    *)
C13_LoadedCellsNonNegative ==
    \A i \in LoadCalls :
        LET file == calls[i].arg
            r    == calls[i].ret
        IN  /\ r.type = "DataFrame"
            /\ Len(r.rows) = Len(file.rows)
            /\ \A k \in DOMAIN r.rows :
                  \A col \in r.columns \cap (ReferralNumericCols \cup DailyNumericCols) :
                      /\ r.rows[k][col] \in Nat
                      /\ r.rows[k][col] = Intended(file.rows[k][col])

====
